---- MODULE Spec2Model ----
(***************************************************************************)
(* QueryCraft (src/app.py): the text-to-SQL core of the Streamlit app.     *)
(*                                                                         *)
(* Texts are TLA+ strings; Len, SubSeq and \o act on them as on Python     *)
(* str.  The backquote character (U+0060) has no literal in a TLA+ string, *)
(* so it is written TICK throughout; the renaming is one-to-one because    *)
(* no other text of the model uses that character.                         *)
(***************************************************************************)
EXTENDS Integers, Sequences, FiniteSets, TLC

VARIABLES
    api_key,        \* os.getenv("GOOGLE_API_KEY") is set
    cache,          \* the value st.cache_resource holds for initialize_gemini
    model,          \* st.session_state.model
    query_history,  \* st.session_state.query_history
    last,           \* what the last click did (return value, calls made)
    arg,            \* a direct call of one of the functions: its arguments
    out             \* ... and its result

vars == <<api_key, cache, model, query_history, last, arg, out>>

-----------------------------------------------------------------------------
(* Python str primitives                                                   *)

TICK == "#"
FENCE == TICK \o TICK \o TICK

UPPERCASE == "ABCDEFGHIJKLMNOPQRSTUVWXYZ"
LOWERCASE == "abcdefghijklmnopqrstuvwxyz"
WHITESPACE == {" ", "\t", "\n", "\r"}

\* the upper-case letters, each with its lower-case letter
LowerOf ==
    [c \in {SubSeq(UPPERCASE, i, i) : i \in 1..Len(UPPERCASE)} |->
        LET i == CHOOSE j \in 1..Len(UPPERCASE) : SubSeq(UPPERCASE, j, j) = c
        IN  SubSeq(LOWERCASE, i, i)]

\* c.lower() for one character
LowerChar(c) == IF c \in DOMAIN LowerOf THEN LowerOf[c] ELSE c

\* s.lower(), character by character (split in halves to keep the recursion flat)
RECURSIVE Lower(_)
Lower(s) ==
    IF Len(s) = 0 THEN ""
    ELSE IF Len(s) = 1 THEN LowerChar(s)
    ELSE LET h == Len(s) \div 2
         IN  Lower(SubSeq(s, 1, h)) \o Lower(SubSeq(s, h + 1, Len(s)))

\* s.strip()
Strip(s) ==
    LET keep == {i \in 1..Len(s) : SubSeq(s, i, i) \notin WHITESPACE}
    IN  IF keep = {} THEN ""
        ELSE SubSeq(s, CHOOSE i \in keep : \A j \in keep : i <= j,
                       CHOOSE i \in keep : \A j \in keep : i >= j)

\* s.startswith(p)
StartsWith(s, p) == Len(s) >= Len(p) /\ SubSeq(s, 1, Len(p)) = p

\* s.endswith(p)
EndsWith(s, p) == Len(s) >= Len(p) /\ SubSeq(s, Len(s) - Len(p) + 1, Len(s)) = p

\* p in s
Contains(s, p) == \E i \in 0..(Len(s) - Len(p)) : SubSeq(s, i + 1, i + Len(p)) = p

\* s[n:]
DropFirst(s, n) == IF n >= Len(s) THEN "" ELSE SubSeq(s, n + 1, Len(s))

\* s[:-n], n > 0
DropLast(s, n) == IF n >= Len(s) THEN "" ELSE SubSeq(s, 1, Len(s) - n)

-----------------------------------------------------------------------------
(* validate_sql                                                            *)

ALLOWED_STARTS == <<"select", "insert", "update", "delete">>
DANGEROUS == <<"drop", "truncate", "alter">>

MSG_EMPTY == "Empty query"
MSG_START == "Query must start with SELECT, INSERT, UPDATE, or DELETE"
MSG_MULTI == "Multiple queries not allowed"
MSG_DANGER == "Potentially dangerous operation detected"

\* the checks with the dangerous-word test ahead of the semicolon test
validate_sql_DangerFirst(query) ==
    IF query = "" THEN [valid |-> FALSE, msg |-> MSG_EMPTY]
    ELSE LET q == Strip(Lower(query))
         IN  IF ~ \E i \in 1..Len(ALLOWED_STARTS) : StartsWith(q, ALLOWED_STARTS[i])
             THEN [valid |-> FALSE, msg |-> MSG_START]
             ELSE IF \E i \in 1..Len(DANGEROUS) : Contains(q, DANGEROUS[i])
             THEN [valid |-> FALSE, msg |-> MSG_DANGER]
             ELSE IF Contains(DropLast(q, 1), ";")
             THEN [valid |-> FALSE, msg |-> MSG_MULTI]
             ELSE [valid |-> TRUE, msg |-> ""]

\* the checks without the dangerous-word test
validate_sql_NoDangerCheck(query) ==
    IF query = "" THEN [valid |-> FALSE, msg |-> MSG_EMPTY]
    ELSE LET q == Strip(Lower(query))
         IN  IF ~ \E i \in 1..Len(ALLOWED_STARTS) : StartsWith(q, ALLOWED_STARTS[i])
             THEN [valid |-> FALSE, msg |-> MSG_START]
             ELSE IF Contains(DropLast(q, 1), ";")
             THEN [valid |-> FALSE, msg |-> MSG_MULTI]
             ELSE [valid |-> TRUE, msg |-> ""]

validate_sql(query) ==
    IF query = "" THEN [valid |-> FALSE, msg |-> MSG_EMPTY]
    ELSE LET q == Strip(Lower(query))
         IN  IF ~ \E i \in 1..Len(ALLOWED_STARTS) : StartsWith(q, ALLOWED_STARTS[i])
             THEN [valid |-> FALSE, msg |-> MSG_START]
             ELSE IF Contains(DropLast(q, 1), ";")
             THEN [valid |-> FALSE, msg |-> MSG_MULTI]
             ELSE IF \E i \in 1..Len(DANGEROUS) : Contains(q, DANGEROUS[i])
             THEN [valid |-> FALSE, msg |-> MSG_DANGER]
             ELSE [valid |-> TRUE, msg |-> ""]

-----------------------------------------------------------------------------
(* clean_sql_query                                                         *)

prefixes_to_remove == <<"SQL Query:", "SQL:", "Query:", "Answer:">>

\* the opening fence without the branch for the sql tag
RemoveOpeningFence_NoTag(s) == IF StartsWith(s, FENCE) THEN DropFirst(s, 3) ELSE s

\* lines 106-109: the opening fence
RemoveOpeningFence(s) ==
    IF StartsWith(s, FENCE \o "sql") THEN DropFirst(s, 6)
    ELSE IF StartsWith(s, FENCE) THEN DropFirst(s, 3)
    ELSE s

\* lines 111-112: the closing fence
RemoveClosingFence(s) == IF EndsWith(s, FENCE) THEN DropLast(s, 3) ELSE s

\* lines 117-118: one pass of the loop body
RemovePrefix(s, prefix) ==
    IF StartsWith(Strip(s), prefix)
    THEN Strip(DropFirst(Strip(s), Len(prefix)))
    ELSE s

\* the loop starting over after every prefix it removes
RECURSIVE RemovePrefixes_Repeat(_, _)
RemovePrefixes_Repeat(s, i) ==
    IF i > Len(prefixes_to_remove) THEN s
    ELSE IF StartsWith(Strip(s), prefixes_to_remove[i])
    THEN RemovePrefixes_Repeat(RemovePrefix(s, prefixes_to_remove[i]), 1)
    ELSE RemovePrefixes_Repeat(s, i + 1)

\* lines 116-118: the loop, from the i-th prefix on
RECURSIVE RemovePrefixes(_, _)
RemovePrefixes(s, i) ==
    IF i > Len(prefixes_to_remove) THEN s
    ELSE RemovePrefixes(RemovePrefix(s, prefixes_to_remove[i]), i + 1)

\* the cleaner without the strip() of its return statement
clean_sql_query_NoFinalStrip(sql_query) ==
    IF sql_query = "" THEN ""
    ELSE RemovePrefixes(RemoveClosingFence(RemoveOpeningFence(sql_query)), 1)

clean_sql_query(sql_query) ==
    IF sql_query = "" THEN ""
    ELSE Strip(RemovePrefixes(RemoveClosingFence(RemoveOpeningFence(sql_query)), 1))

-----------------------------------------------------------------------------
(* get_gemini_response                                                     *)

SENSITIVE_KEYWORDS == <<"password", "credit_card", "ssn", "social security", "pin">>
MAX_QUERY_LENGTH == 2000

NONE == "None"

\* the keyword test without lower(): the question is matched as typed
HasSensitiveKeyword_CaseSensitive(input_text) ==
    \E i \in 1..Len(SENSITIVE_KEYWORDS) : Contains(input_text, SENSITIVE_KEYWORDS[i])

\* line 128: any(keyword in input_text.lower() for keyword in SENSITIVE_KEYWORDS)
HasSensitiveKeyword(input_text) ==
    LET low == Lower(input_text)
    IN  \E i \in 1..Len(SENSITIVE_KEYWORDS) : Contains(low, SENSITIVE_KEYWORDS[i])

\* the length test off by one
TooLong_OffByOne(input_text) == Len(input_text) > MAX_QUERY_LENGTH + 1

\* line 132: len(input_text) > MAX_QUERY_LENGTH
TooLong(input_text) == Len(input_text) > MAX_QUERY_LENGTH

\* What one call of model.generate_content(prompt) followed by response.text
\* does: kind "text" yields the text, any other kind is the class of the
\* exception raised, with str(e) in text.
EXCEPTIONS == {"ValueError", "InvalidArgument", "PermissionDenied",
               "ResourceExhausted", "NotFound", "Exception"}

\* What get_gemini_response hands back: the returned string (raised = FALSE) or
\* an exception that left the function (raised = TRUE); how many times
\* generate_content was called; the locals cleaned_query and validation_msg
\* when lines 165-166 ran; exit names the return statement taken.
Returned(text, calls, cleaned, msg, exit) ==
    [ret |-> text, raised |-> FALSE, generate_calls |-> calls,
     cleaned_query |-> cleaned, validation_msg |-> msg, exit |-> exit]

Escaped(calls) ==
    [ret |-> "", raised |-> TRUE, generate_calls |-> calls,
     cleaned_query |-> "", validation_msg |-> "", exit |-> "raise"]

\* the except clauses without the last one, except Exception
HandleFailure_NoCatchAll(outcome) ==
    LET e == outcome.text
    IN  IF outcome.kind = "ValueError"
        THEN IF Contains(Lower(e), "policy") \/ Contains(Lower(e), "safety")
             THEN Returned("Error: Prompt blocked for safety reasons", 1, "", "", "blocked")
             ELSE Returned("Error: " \o e, 1, "", "", "value_error")
        ELSE IF outcome.kind = "InvalidArgument"
        THEN Returned("Error: Invalid prompt - " \o e, 1, "", "", "invalid_argument")
        ELSE IF outcome.kind = "PermissionDenied"
        THEN Returned("Error: API key rejected - " \o e, 1, "", "", "permission_denied")
        ELSE IF outcome.kind = "ResourceExhausted"
        THEN Returned("Error: API quota exceeded - " \o e, 1, "", "", "resource_exhausted")
        ELSE Escaped(1)

\* the except clauses with a second call after a quota failure
HandleFailure_RetryOnce(outcome) ==
    LET e == outcome.text
    IN  IF outcome.kind = "ValueError"
        THEN IF Contains(Lower(e), "policy") \/ Contains(Lower(e), "safety")
             THEN Returned("Error: Prompt blocked for safety reasons", 1, "", "", "blocked")
             ELSE Returned("Error: " \o e, 1, "", "", "value_error")
        ELSE IF outcome.kind = "InvalidArgument"
        THEN Returned("Error: Invalid prompt - " \o e, 1, "", "", "invalid_argument")
        ELSE IF outcome.kind = "PermissionDenied"
        THEN Returned("Error: API key rejected - " \o e, 1, "", "", "permission_denied")
        ELSE IF outcome.kind = "ResourceExhausted"
        THEN Returned("Error: API quota exceeded - " \o e, 2, "", "", "resource_exhausted")
        ELSE Returned("Error generating SQL query: " \o e, 1, "", "", "exception")

\* lines 170-182: the except clauses, tried in order
HandleFailure(outcome) ==
    LET e == outcome.text
    IN  IF outcome.kind = "ValueError"
        THEN IF Contains(Lower(e), "policy") \/ Contains(Lower(e), "safety")
             THEN Returned("Error: Prompt blocked for safety reasons", 1, "", "", "blocked")
             ELSE Returned("Error: " \o e, 1, "", "", "value_error")
        ELSE IF outcome.kind = "InvalidArgument"
        THEN Returned("Error: Invalid prompt - " \o e, 1, "", "", "invalid_argument")
        ELSE IF outcome.kind = "PermissionDenied"
        THEN Returned("Error: API key rejected - " \o e, 1, "", "", "permission_denied")
        ELSE IF outcome.kind = "ResourceExhausted"
        THEN Returned("Error: API quota exceeded - " \o e, 1, "", "", "resource_exhausted")
        ELSE Returned("Error generating SQL query: " \o e, 1, "", "", "exception")

\* lines 165-169: the response text, cleaned and validated
HandleText(text) ==
    LET cleaned_query == clean_sql_query(text)
        v == validate_sql(cleaned_query)
    IN  IF ~ v.valid
        THEN Returned("Validation Error: " \o v.msg, 1, cleaned_query, v.msg, "validation")
        ELSE Returned(cleaned_query, 1, cleaned_query, v.msg, "ok")

\* m is the model argument, outcome what the Generation Client does if called
get_gemini_response(input_text, m, outcome) ==
    IF m = NONE
    THEN Returned("Error: Gemini AI model not initialized", 0, "", "", "no_model")
    ELSE IF HasSensitiveKeyword(input_text)
    THEN Returned("Error: Query contains potentially sensitive keywords", 0, "", "",
                  "sensitive")
    ELSE IF TooLong(input_text)
    THEN Returned("Error: Query too long (max " \o ToString(MAX_QUERY_LENGTH)
                      \o " characters)", 0, "", "", "too_long")
    ELSE IF outcome.kind = "text" THEN HandleText(outcome.text)
    ELSE HandleFailure(outcome)

-----------------------------------------------------------------------------
(* Inputs                                                                  *)

MaxOver == 1      \* questions reach MAX_QUERY_LENGTH + MaxOver characters
MaxLabels == 2    \* label prefixes stacked in front of a raw text

HANDLE == "gemini-2.0-flash-exp"

\* n copies of the character c
RECURSIVE Rep(_, _)
Rep(c, n) ==
    IF n <= 0 THEN ""
    ELSE IF n = 1 THEN c
    ELSE Rep(c, n \div 2) \o Rep(c, n - (n \div 2))

QuestionHeads ==
    {"list employees ", "   ", "my PIN ", "shopping carts ", "reset Password ",
     "Social Security numbers ", "credit_card totals ", "SSN ", "credit card "}

\* each head as it is, and padded to lengths around MAX_QUERY_LENGTH
Questions ==
    QuestionHeads \cup
    {h \o Rep("x", n - Len(h)) :
        h \in QuestionHeads, n \in (MAX_QUERY_LENGTH - 1)..(MAX_QUERY_LENGTH + MaxOver)}

Openings == {"", FENCE, FENCE \o "\n", FENCE \o "sql\n", FENCE \o "SQL\n",
             FENCE \o "sqlite\n", " " \o FENCE \o "sql\n"}
Closings == {"", FENCE, "\n" \o FENCE, FENCE \o "\n"}
Labels == {"SQL Query: ", "SQL: ", "Query: ", "Answer:", "sql:"}
Bodies == {"", "SELECT * FROM employees;", "select 1", " select 1; select 2 ",
           "DROP TABLE employees", "select alter_date from t\n",
           "delete from t; drop table t"}

\* up to n labels in a row
RECURSIVE LabelRuns(_)
LabelRuns(n) ==
    IF n = 0 THEN {""}
    ELSE LabelRuns(n - 1) \cup {l \o r : l \in Labels, r \in LabelRuns(n - 1)}

RawTextsOf(n) == {o \o l \o b \o c : o \in Openings, l \in LabelRuns(n),
                                  b \in Bodies, c \in Closings}
RawTexts == RawTextsOf(MaxLabels)

QueryStarts == {"select", "SELECT", "Insert", "update", "delete", "drop", "selection",
                "truncate", " select", "with"}
QueryRests == {"", " 1", " * from t;", " 1; select 2", ";", "; ", ";;", " alter_date;",
               " a; drop table t", " x from truncated", "\n"}
Queries == {"", " ", ";"} \cup {a \o b : a \in QueryStarts, b \in QueryRests}

Outcomes ==
    {[kind |-> "text", text |-> t] :
        t \in {"", FENCE \o "sql\nSELECT * FROM employees;\n" \o FENCE,
               "Query: DROP TABLE employees", "select 1; select 2"}}
    \cup {[kind |-> "ValueError", text |-> t] :
        t \in {"response blocked by SAFETY filters", "content Policy", "no candidates"}}
    \cup {[kind |-> k, text |-> "failed"] : k \in EXCEPTIONS \ {"ValueError"}}

NoCall == [fn |-> "none"]
NoLast == [clicked |-> FALSE]

\* the direct calls
Calls ==
    {[fn |-> "validate_sql", query |-> q] : q \in Queries}
    \cup {[fn |-> "clean_sql_query", sql_query |-> t] : t \in RawTexts \cup Queries}
    \cup {[fn |-> "get_gemini_response", input_text |-> q, model |-> m, outcome |-> o] :
            q \in QuestionHeads, m \in {NONE, HANDLE}, o \in Outcomes}
    \cup {[fn |-> "get_gemini_response", input_text |-> q, model |-> m, outcome |-> o] :
            q \in Questions, m \in {NONE, HANDLE},
            o \in {[kind |-> "text", text |-> "select 1"],
                   [kind |-> "ResourceExhausted", text |-> "failed"]}}
    \cup {[fn |-> "get_gemini_response", input_text |-> "list employees", model |-> HANDLE,
           outcome |-> [kind |-> "text", text |-> t]] : t \in RawTextsOf(1)}

-----------------------------------------------------------------------------
(* The functions, called directly                                          *)

InitFn ==
    /\ api_key = FALSE
    /\ cache = "empty"
    /\ model = "unset"
    /\ query_history = <<>>
    /\ last = NoLast
    /\ arg \in Calls
    /\ out = NoCall

CallValidateSql ==
    /\ out = NoCall
    /\ arg.fn = "validate_sql"
    /\ out' = [fn |-> arg.fn, res |-> validate_sql(arg.query)]
    /\ UNCHANGED <<api_key, cache, model, query_history, last, arg>>

CallCleanSqlQuery ==
    /\ out = NoCall
    /\ arg.fn = "clean_sql_query"
    /\ out' = [fn |-> arg.fn, res |-> clean_sql_query(arg.sql_query)]
    /\ UNCHANGED <<api_key, cache, model, query_history, last, arg>>

CallGetGeminiResponse ==
    /\ out = NoCall
    /\ arg.fn = "get_gemini_response"
    /\ out' = [fn |-> arg.fn,
               res |-> get_gemini_response(arg.input_text, arg.model, arg.outcome)]
    /\ UNCHANGED <<api_key, cache, model, query_history, last, arg>>

NextFn == CallValidateSql \/ CallCleanSqlQuery \/ CallGetGeminiResponse

SpecFn == InitFn /\ [][NextFn]_vars

-----------------------------------------------------------------------------
(* initialize_gemini                                                       *)

model_names == <<"gemini-2.0-flash-exp", "gemini-1.5-flash-002", "gemini-1.5-flash-latest",
                 "gemini-1.5-flash", "gemini-1.5-pro-002", "gemini-1.5-pro-latest",
                 "gemini-1.5-pro">>

\* what the probe model.generate_content("Hello") of one candidate does
PROBES == {"ok", "NotFound", "PermissionDenied", "Exception"}

\* the loop with a permission failure ending it: no candidate after it is tried
RECURSIVE TryModels_StopOnDenied(_, _, _)
TryModels_StopOnDenied(probes, i, probed) ==
    IF i > Len(model_names) THEN [model |-> NONE, probed |-> probed]
    ELSE IF probes[i] = "ok"
    THEN [model |-> model_names[i], probed |-> Append(probed, i)]
    ELSE IF probes[i] = "PermissionDenied"
    THEN [model |-> NONE, probed |-> Append(probed, i)]
    ELSE TryModels_StopOnDenied(probes, i + 1, Append(probed, i))

\* lines 61-80: the loop over model_names from the i-th candidate on;
\* probes[i] is what the probe of model_names[i] does if it is made, probed
\* the candidates probed so far, in the order of the probes.  Each of the
\* three except clauses ends in continue.
RECURSIVE TryModels(_, _, _)
TryModels(probes, i, probed) ==
    IF i > Len(model_names) THEN [model |-> NONE, probed |-> probed]
    ELSE IF probes[i] = "ok"
    THEN [model |-> model_names[i], probed |-> Append(probed, i)]
    ELSE TryModels(probes, i + 1, Append(probed, i))

\* lines 41-84: one run of the body, with the value returned and the probes
\* made.  genai.configure(api_key=...) only stores the key, so nothing of the
\* outer try block reaches the handler of lines 82-84.
RunInitializeGemini(key, probes) ==
    IF ~ key THEN [model |-> NONE, probed |-> <<>>]
    ELSE TryModels(probes, 1, <<>>)

initialize_gemini(key, probes) == RunInitializeGemini(key, probes).model

\* line 38, st.cache_resource: the body runs on the first call only, and every
\* later call gets the value the first one returned, whatever the candidates
\* would answer by then.  The value a call of initialize_gemini() returns in
\* the current state.
CachedInitializeGemini(probes) ==
    IF cache = "empty" THEN initialize_gemini(api_key, probes) ELSE cache

\* initialize_gemini called directly
StartupCalls ==
    {[fn |-> "initialize_gemini", key |-> k, probes |-> p] :
        k \in BOOLEAN, p \in [1..Len(model_names) -> PROBES]}

InitStartup ==
    /\ api_key = FALSE
    /\ cache = "empty"
    /\ model = "unset"
    /\ query_history = <<>>
    /\ last = NoLast
    /\ arg \in StartupCalls
    /\ out = NoCall

CallInitializeGemini ==
    /\ out = NoCall
    /\ arg.fn = "initialize_gemini"
    /\ out' = [fn |-> arg.fn, res |-> RunInitializeGemini(arg.key, arg.probes)]
    /\ UNCHANGED <<api_key, cache, model, query_history, last, arg>>

NextStartup == CallInitializeGemini

SpecStartup == InitStartup /\ [][NextStartup]_vars

-----------------------------------------------------------------------------
(* The session                                                             *)

MaxHistory == 2   \* entries the history grows to

TIMESTAMPS == {"2026-11-03 09:00", "2026-11-03 09:01"}

\* a question of MAX_QUERY_LENGTH + 1 characters
LongQuestion == "list employees " \o Rep("x", MAX_QUERY_LENGTH + 1 - Len("list employees "))

SessionQuestions == {"list employees", "how many orders", "my PIN", "   ", "", LongQuestion}

\* line 558, input_text.strip() is not empty, for the questions of the session,
\* computed once
NonBlank == [q \in SessionQuestions |-> Strip(q) # ""]

\* get_gemini_response on the inputs of the session, computed once
Responses ==
    [q \in SessionQuestions, o \in Outcomes |-> get_gemini_response(q, HANDLE, o)]

\* line 580: the dict appended to the history
HistoryEntry(question, sql_query, timestamp) ==
    [question |-> question, sql_query |-> sql_query, timestamp |-> timestamp]

Init ==
    /\ api_key \in BOOLEAN
    /\ cache = "empty"
    /\ model = "unset"
    /\ query_history = <<>>
    /\ last = NoLast
    /\ arg = NoCall
    /\ out = NoCall

\* what the candidates answer at the time of a click on Retry or Refresh:
\* the first k - 1 fail in the way f, the others are alive
SessionProbes ==
    {[i \in 1..Len(model_names) |-> IF i < k THEN f ELSE "ok"] :
        k \in {1, 4, Len(model_names) + 1}, f \in PROBES \ {"ok"}}

\* lines 637-638: the first script run of the session
FirstRun ==
    /\ model = "unset"
    /\ \E probes \in [1..Len(model_names) -> PROBES] :
          /\ model' = CachedInitializeGemini(probes)
          /\ cache' = model'
    /\ UNCHANGED <<api_key, query_history, last, arg, out>>

\* lines 681-683: the sidebar button
RefreshConnection ==
    /\ model # "unset"
    /\ \E probes \in SessionProbes :
          /\ model' = CachedInitializeGemini(probes)
          /\ cache' = model'
          /\ last' = [clicked |-> TRUE, action |-> "refresh", called |-> FALSE,
                      probes |-> probes]
    /\ UNCHANGED <<api_key, query_history, arg, out>>

\* lines 525-530: the button of the converter page without a model
RetryConnection ==
    /\ model = NONE
    /\ \E probes \in SessionProbes :
          /\ model' = CachedInitializeGemini(probes)
          /\ cache' = model'
          /\ last' = [clicked |-> TRUE, action |-> "retry", called |-> FALSE,
                      probes |-> probes]
    /\ UNCHANGED <<api_key, query_history, arg, out>>

\* lines 558-585: what a click on Convert does to the history
HistoryAfter(input_text, save_history, res, timestamp) ==
    IF res.raised \/ StartsWith(res.ret, "Error") THEN query_history
    ELSE IF save_history /\ res.ret # "" /\ ~ StartsWith(res.ret, "Error")
    THEN Append(query_history, HistoryEntry(input_text, res.ret, timestamp))
    ELSE query_history

\* lines 525-585: a click on Convert to SQL
Convert ==
    /\ model \notin {"unset", NONE}
    /\ Len(query_history) < MaxHistory
    /\ \E input_text \in SessionQuestions, save_history \in BOOLEAN :
          IF ~ NonBlank[input_text]
          THEN /\ last' = [clicked |-> TRUE, action |-> "convert",
                           input_text |-> input_text,
                           save_history |-> save_history, called |-> FALSE]
               /\ UNCHANGED query_history
          ELSE \E o \in Outcomes, timestamp \in TIMESTAMPS :
                  LET res == Responses[input_text, o]
                  IN  /\ last' = [clicked |-> TRUE, action |-> "convert",
                                  input_text |-> input_text,
                                  save_history |-> save_history, called |-> TRUE,
                                  res |-> res]
                      /\ query_history' =
                            HistoryAfter(input_text, save_history, res, timestamp)
    /\ UNCHANGED <<api_key, cache, model, arg, out>>

\* lines 599-602: the button of the history page, shown when there is history
ClearHistory ==
    /\ model # "unset"
    /\ query_history # <<>>
    /\ query_history' = <<>>
    /\ UNCHANGED <<api_key, cache, model, last, arg, out>>

Next == FirstRun \/ RefreshConnection \/ RetryConnection \/ Convert \/ ClearHistory

Spec == Init /\ [][Next]_vars

-----------------------------------------------------------------------------
(* Properties of the session                                               *)

\* C1: an entry is appended to the history only by a submission whose model
\* text, once cleaned, the validator accepted: no submission that ends in an
\* input rejection, a generation failure or a validator rejection appends one.
C1_NoEntryFromFailure ==
    [][Len(query_history') > Len(query_history)
          => (last'.called /\ last'.res.exit = "ok")]_vars

\* C10: the history changes only by the clear action, which empties it, and by
\* a successful submission with save-to-history on, which appends one entry
\* holding the question as typed and the cleaned query returned for it; such a
\* submission always appends.
C10_HistoryTracksSuccesses ==
    [][/\ query_history' # query_history
            => \/ query_history' = <<>>
               \/ /\ last'.called /\ last'.save_history /\ last'.res.exit = "ok"
                  /\ Len(query_history') = Len(query_history) + 1
                  /\ SubSeq(query_history', 1, Len(query_history)) = query_history
                  /\ query_history'[Len(query_history')].question = last'.input_text
                  /\ query_history'[Len(query_history')].sql_query
                        = last'.res.cleaned_query
       /\ (last' # last /\ last'.called /\ last'.save_history /\ last'.res.exit = "ok")
            => Len(query_history') = Len(query_history) + 1]_vars

-----------------------------------------------------------------------------
(* Properties of get_gemini_response                                       *)

IsWhitespace(s, i) == SubSeq(s, i, i) \in {" ", "\t", "\n", "\r"}

\* w, a lower-case word, occurs in s when the case of letters is ignored
OccursIgnoringCase(s, w) ==
    \E i \in 0..(Len(s) - Len(w)) :
        \A j \in 1..Len(w) : LowerChar(SubSeq(s, i + j, i + j)) = SubSeq(w, j, j)

IsSensitive(question) ==
    \E w \in {"password", "credit_card", "ssn", "social security", "pin"} :
        OccursIgnoringCase(question, w)

Responded == out.fn = "get_gemini_response"

\* C2: a question that holds one of the sensitive keywords, in any case and
\* anywhere, is rejected (with the sensitive-keyword message when a model
\* handle was passed) and the Generation Client is not called for it.
C2_SensitiveRejectedWithoutCall ==
    (Responded /\ IsSensitive(arg.input_text))
        => /\ ~ out.res.raised
           /\ StartsWith(out.res.ret, "Error")
           /\ out.res.generate_calls = 0
           /\ arg.model # NONE
                => out.res.ret = "Error: Query contains potentially sensitive keywords"

C2_Witness ==
    /\ Responded
    /\ arg.input_text = "my PIN "
    /\ arg.model = HANDLE
    /\ arg.outcome.kind = "text"
    /\ out.res.exit = "sensitive"

\* C3, as claimed: a question longer than 2000 characters (passed with a model
\* handle) is rejected before any call to the Generation Client and the
\* message returned includes "2000".
C3_TooLongMessage ==
    (Responded /\ arg.model # NONE /\ Len(arg.input_text) > 2000)
        => /\ ~ out.res.raised
           /\ StartsWith(out.res.ret, "Error")
           /\ out.res.generate_calls = 0
           /\ Contains(out.res.ret, "2000")

\* C3, amended: a question longer than 2000 characters is rejected before any
\* call to the Generation Client; the message includes "2000" when a model
\* handle was passed and the question holds no sensitive keyword, and is the
\* sensitive-keyword message, without "2000", when it holds one.
C3_TooLongRejected ==
    (Responded /\ Len(arg.input_text) > 2000)
        => /\ ~ out.res.raised
           /\ StartsWith(out.res.ret, "Error")
           /\ out.res.generate_calls = 0
           /\ (arg.model # NONE /\ ~ IsSensitive(arg.input_text))
                => Contains(out.res.ret, "2000")
           /\ (arg.model # NONE /\ IsSensitive(arg.input_text))
                => /\ ~ Contains(out.res.ret, "2000")
                   /\ out.res.exit = "sensitive"

C3_Witness ==
    /\ Responded
    /\ Len(arg.input_text) = 2001
    /\ StartsWith(arg.input_text, "list employees ")
    /\ arg.model = HANDLE
    /\ out.res.ret = "Error: Query too long (max 2000 characters)"

\* C4: whatever the Generation Client does (text, content-policy block,
\* invalid argument, permission denied, resource exhausted, anything else),
\* get_gemini_response returns a string and no exception leaves it; a failure
\* of the client comes back as a string that starts with "Error".
C4_NoExceptionEscapes ==
    Responded
        => /\ ~ out.res.raised
           /\ out.res.ret \in STRING
           /\ (out.res.generate_calls = 1 /\ arg.outcome.kind # "text")
                => StartsWith(out.res.ret, "Error")

C4_Witness ==
    /\ Responded
    /\ arg.outcome.kind = "NotFound"
    /\ out.res.generate_calls = 1
    /\ out.res.ret = "Error generating SQL query: failed"

-----------------------------------------------------------------------------
(* Properties of validate_sql                                              *)

Validated == out.fn = "validate_sql"

\* s holds one of the words of W
HoldsOneOf(s, W) == \E w \in W : Contains(s, w)

\* the rules of the validator, first match first, on the text t that is the
\* query lower-cased and trimmed
RuleFor(query) ==
    LET t == Strip(Lower(query))
    IN  IF Len(query) = 0 THEN <<FALSE, "Empty query">>
        ELSE IF \A w \in {"select", "insert", "update", "delete"} : ~ StartsWith(t, w)
        THEN <<FALSE, "Query must start with SELECT, INSERT, UPDATE, or DELETE">>
        ELSE IF \E i \in 1..(Len(t) - 1) : SubSeq(t, i, i) = ";"
        THEN <<FALSE, "Multiple queries not allowed">>
        ELSE IF HoldsOneOf(t, {"drop", "truncate", "alter"})
        THEN <<FALSE, "Potentially dangerous operation detected">>
        ELSE <<TRUE, "">>

\* C5: validate_sql returns the result of the first rule that applies, in the
\* order empty, start word, semicolon before the last character, dangerous
\* word, accepted; select 1 and select * from t; are accepted and
\* select 1; select 2 is rejected.
C5_ValidateRuleOrder ==
    Validated
        => /\ <<out.res.valid, out.res.msg>> = RuleFor(arg.query)
           /\ arg.query \in {"select 1", "select * from t;"} => out.res.valid
           /\ arg.query = "select 1; select 2"
                => out.res = [valid |-> FALSE, msg |-> "Multiple queries not allowed"]

\* a query that both the semicolon rule and the dangerous-word rule reject
C5_Witness ==
    /\ Validated
    /\ arg.query = "select a; drop table t"
    /\ out.res = [valid |-> FALSE, msg |-> "Multiple queries not allowed"]

Cleaned == Responded /\ out.res.exit \in {"ok", "validation"}

\* C6, as claimed: a cleaned query whose lower-cased text holds drop, truncate
\* or alter is rejected with the reason Potentially dangerous operation
\* detected; Query: DROP TABLE employees is cleaned to DROP TABLE employees and
\* rejected with that reason.
C6_DangerReason ==
    Cleaned
        => /\ HoldsOneOf(Lower(out.res.cleaned_query), {"drop", "truncate", "alter"})
                => /\ out.res.exit = "validation"
                   /\ out.res.validation_msg = "Potentially dangerous operation detected"
           /\ arg.outcome.text = "Query: DROP TABLE employees"
                => /\ out.res.cleaned_query = "DROP TABLE employees"
                   /\ out.res.validation_msg = "Potentially dangerous operation detected"

\* C6, amended: a cleaned query whose lower-cased text holds drop, truncate or
\* alter is rejected; the reason is Potentially dangerous operation detected
\* exactly when the text starts with select, insert, update or delete and has
\* no semicolon before its last character, and is the reason of the earlier
\* rule otherwise; Query: DROP TABLE employees is cleaned to DROP TABLE
\* employees and rejected for not starting with an allowed word.
C6_DangerRejected ==
    Cleaned
        => /\ HoldsOneOf(Lower(out.res.cleaned_query), {"drop", "truncate", "alter"})
                => LET t == Lower(out.res.cleaned_query)
                       starts == \E w \in {"select", "insert", "update", "delete"} :
                                      StartsWith(t, w)
                       inner == \E i \in 1..(Len(t) - 1) : SubSeq(t, i, i) = ";"
                   IN  /\ out.res.exit = "validation"
                       /\ StartsWith(out.res.ret, "Validation Error: ")
                       /\ out.res.validation_msg =
                            IF ~ starts
                            THEN "Query must start with SELECT, INSERT, UPDATE, or DELETE"
                            ELSE IF inner THEN "Multiple queries not allowed"
                            ELSE "Potentially dangerous operation detected"
           /\ arg.outcome.text = "Query: DROP TABLE employees"
                => /\ out.res.cleaned_query = "DROP TABLE employees"
                   /\ out.res.validation_msg =
                        "Query must start with SELECT, INSERT, UPDATE, or DELETE"

C6_Witness ==
    /\ Cleaned
    /\ arg.outcome.text = "Query: DROP TABLE employees"
    /\ out.res.ret =
         "Validation Error: Query must start with SELECT, INSERT, UPDATE, or DELETE"

-----------------------------------------------------------------------------
(* Properties of clean_sql_query                                           *)

WasCleaned == out.fn = "clean_sql_query"

LABELS == <<"SQL Query:", "SQL:", "Query:", "Answer:">>

\* the text has three backquotes neither at its start nor at its end
Unfenced(raw) == ~ StartsWith(raw, FENCE) /\ ~ EndsWith(raw, FENCE)

\* r is s without the whitespace around it
IsTrimOf(r, s) ==
    \E a \in 0..Len(s) : \E b \in a..Len(s) :
        /\ r = SubSeq(s, a + 1, b)
        /\ \A i \in 1..a : IsWhitespace(s, i)
        /\ \A i \in (b + 1)..Len(s) : IsWhitespace(s, i)
        /\ a < b => ~ IsWhitespace(s, a + 1) /\ ~ IsWhitespace(s, b)

\* the label of index i stands at the start of s, whitespace before it ignored
LabelStarts(s, i) ==
    \E k \in 0..(Len(s) - Len(LABELS[i])) :
        /\ \A j \in 1..k : IsWhitespace(s, j)
        /\ SubSeq(s, k + 1, k + Len(LABELS[i])) = LABELS[i]

\* the labels that start s, by index
LabelsAt(s) == {i \in 1..Len(LABELS) : LabelStarts(s, i)}

First(S) == CHOOSE i \in S : \A j \in S : i <= j

\* t, trimmed, without the label of index i at its start
WithoutLabel(t, i) == Strip(DropFirst(Strip(t), Len(LABELS[i])))

\* C7, as claimed: at most one label is stripped, the first in list order that
\* the trimmed text starts with; a label that begins what remains stays.
C7_AtMostOneLabel ==
    (WasCleaned /\ Unfenced(arg.sql_query))
        => /\ LabelsAt(arg.sql_query) = {} => out.res = Strip(arg.sql_query)
           /\ LabelsAt(arg.sql_query) # {}
                => out.res = WithoutLabel(arg.sql_query, First(LabelsAt(arg.sql_query)))
           /\ arg.sql_query = "SQL: SQL: select 1" => out.res = "SQL: select 1"

\* stripping as the loop does it: the first label from index k on that starts
\* the text is removed, and the same is done to what remains with the labels
\* after it in the list
RECURSIVE StrippedFrom(_, _)
StrippedFrom(t, k) ==
    LET M == {i \in LabelsAt(t) : i >= k}
    IN  IF M = {} THEN Strip(t)
        ELSE StrippedFrom(WithoutLabel(t, First(M)), First(M) + 1)

\* C7, amended: each label is tried once, in list order, against the text as it
\* then stands; the first one that the trimmed text starts with is removed,
\* and a label that begins what remains is removed too when it comes later in
\* the list and stays when it is the same label or an earlier one
\* (SQL: SQL: select 1 yields SQL: select 1, SQL: Query: select 1 yields
\* select 1).
C7_LabelsStrippedInListOrder ==
    (WasCleaned /\ Unfenced(arg.sql_query))
        => /\ out.res = StrippedFrom(arg.sql_query, 1)
           /\ arg.sql_query = "SQL: SQL: select 1" => out.res = "SQL: select 1"
           /\ arg.sql_query = "SQL: Query: select 1" => out.res = "select 1"
           /\ arg.sql_query = "Query: SQL: select 1" => out.res = "SQL: select 1"

C7_Witness ==
    /\ WasCleaned
    /\ arg.sql_query = "SQL: SQL: select 1"
    /\ out.res = "SQL: select 1"

\* C9: a text with no fence at its start or end whose trimmed text starts with
\* no label comes back as it is but for the whitespace around it, and the
\* empty text comes back empty.
C9_CleanInputUnchanged ==
    WasCleaned
        => /\ (Unfenced(arg.sql_query) /\ LabelsAt(arg.sql_query) = {})
                => IsTrimOf(out.res, arg.sql_query)
           /\ arg.sql_query = "" => out.res = ""

C9_Witness ==
    /\ WasCleaned
    /\ arg.sql_query = " select 1; select 2 "
    /\ out.res = "select 1; select 2"


IsLetter(s, i) ==
    \E j \in 1..Len(UPPERCASE) :
        SubSeq(s, i, i) \in {SubSeq(UPPERCASE, j, j), SubSeq(LOWERCASE, j, j)}

\* the length of the run of letters that follows the three backquotes at the
\* start of raw: the language tag of the opening marker
TagLength(raw) ==
    CHOOSE n \in 0..(Len(raw) - 3) :
        /\ \A i \in 1..n : IsLetter(raw, 3 + i)
        /\ 3 + n = Len(raw) \/ ~ IsLetter(raw, 4 + n)

FenceTag(raw) == SubSeq(raw, 4, 3 + TagLength(raw))

\* raw starts with an opening marker that ends its line: three backquotes, a
\* tag or none, a newline
OpensBlock(raw) ==
    /\ StartsWith(raw, FENCE)
    /\ 3 + TagLength(raw) < Len(raw)
    /\ SubSeq(raw, 4 + TagLength(raw), 4 + TagLength(raw)) = "\n"

\* s without the closing marker it ends with, if it ends with one
Unclosed(s) == IF EndsWith(s, FENCE) THEN SubSeq(s, 1, Len(s) - 3) ELSE s

\* what stands between the opening marker, tag included, and the closing one
InsideFence(raw) == Unclosed(SubSeq(raw, 4 + TagLength(raw), Len(raw)))

\* C8, as claimed: of a text that begins with an opening marker, with a
\* language tag or without, the marker and its tag are removed, and of a text
\* that ends with a closing marker that marker is removed, so that the cleaned
\* query is the text inside the fence.
C8_FenceRemoved ==
    WasCleaned
        => /\ (OpensBlock(arg.sql_query) /\ LabelsAt(InsideFence(arg.sql_query)) = {})
                => IsTrimOf(out.res, InsideFence(arg.sql_query))
           /\ (~ StartsWith(arg.sql_query, FENCE) /\ LabelsAt(Unclosed(arg.sql_query)) = {})
                => IsTrimOf(out.res, Unclosed(arg.sql_query))

\* C8, amended: of a text that begins with an opening marker the three
\* backquotes are removed, and with them the tag when it is sql in lower case;
\* any other tag stays in the cleaned query (of a tag that begins with sql the
\* rest stays); of a text that ends with a closing marker that marker is
\* removed.  The cleaned query is the text inside the fence when the tag is
\* sql or absent.
C8_FenceRemovedSqlTag ==
    WasCleaned
        => /\ (/\ OpensBlock(arg.sql_query)
               /\ FenceTag(arg.sql_query) \in {"", "sql"}
               /\ LabelsAt(InsideFence(arg.sql_query)) = {})
                => IsTrimOf(out.res, InsideFence(arg.sql_query))
           /\ (OpensBlock(arg.sql_query) /\ FenceTag(arg.sql_query) \notin {"", "sql"})
                => LET n == IF StartsWith(FenceTag(arg.sql_query), "sql") THEN 6 ELSE 3
                       kept == Unclosed(SubSeq(arg.sql_query, n + 1, Len(arg.sql_query)))
                   IN  /\ kept # InsideFence(arg.sql_query)
                       /\ LabelsAt(kept) = {} => IsTrimOf(out.res, kept)
           /\ (~ StartsWith(arg.sql_query, FENCE) /\ LabelsAt(Unclosed(arg.sql_query)) = {})
                => IsTrimOf(out.res, Unclosed(arg.sql_query))

C8_Witness ==
    /\ WasCleaned
    /\ arg.sql_query = FENCE \o "sql\nSELECT * FROM employees;\n" \o FENCE
    /\ out.res = "SELECT * FROM employees;"

-----------------------------------------------------------------------------
(* Properties of initialize_gemini                                         *)

Started == out.fn = "initialize_gemini"

\* the candidates whose probe succeeds, by index
Live(probes) == {i \in 1..Len(model_names) : probes[i] = "ok"}

\* C11: the candidates are probed in list order, from the first on; the one
\* returned is the first whose probe succeeds, and none after it is probed;
\* None is returned exactly when the key is absent or every probe fails; a
\* failed probe, of whatever kind, is followed by the probe of the next
\* candidate, so that all are probed when none succeeds.
C11_FirstLiveCandidate ==
    Started
        => LET live == Live(arg.probes)
               res == out.res
           IN  /\ res.probed = [i \in 1..Len(res.probed) |-> i]
               /\ (arg.key /\ live # {})
                    => /\ res.model = model_names[First(live)]
                       /\ Len(res.probed) = First(live)
               /\ (res.model = NONE) <=> (~ arg.key \/ live = {})
               /\ (arg.key /\ live = {}) => Len(res.probed) = Len(model_names)
               /\ ~ arg.key => res.probed = <<>>

C11_Witness ==
    /\ Started
    /\ arg.key
    /\ arg.probes = <<"NotFound", "PermissionDenied", "Exception", "ok",
                      "ok", "NotFound", "ok">>
    /\ out.res = [model |-> "gemini-1.5-flash", probed |-> <<1, 2, 3, 4>>]

-----------------------------------------------------------------------------
(* Properties of the connection and of the calls of a submission           *)

\* C12: a click on Retry Connection or Refresh Connection in a session without
\* a model handle, made when the key is set and a candidate is alive, leaves
\* the session with a model handle.
C12_RetryReconnects ==
    [][(/\ model = NONE
        /\ api_key
        /\ last' # last
        /\ last'.action \in {"retry", "refresh"}
        /\ Live(last'.probes) # {})
          => model' # NONE]_vars

\* the question has no character but whitespace
IsBlank(question) == \A i \in 1..Len(question) : IsWhitespace(question, i)

Submitted == last.clicked /\ last.action = "convert"

\* the calls of generate a question is to get when a model handle is present:
\* one when it is not blank, holds no sensitive keyword and has at most 2000
\* characters, none otherwise
ExpectedCalls ==
    [q \in SessionQuestions |->
        IF ~ IsBlank(q) /\ ~ IsSensitive(q) /\ Len(q) <= 2000 THEN 1 ELSE 0]

\* the calls of generate made for the last click
GenerateCalls == IF last.called THEN last.res.generate_calls ELSE 0

\* C13: a submission calls generate once when a model handle is present and
\* the question is not blank, holds no sensitive keyword and has at most 2000
\* characters, and not at all otherwise; a submission is made only with a
\* model handle; a failed call is reported by one message that starts with
\* Error, after that single call.
C13_GenerateAtMostOnce ==
    Submitted
        => /\ model \notin {"unset", NONE}
           /\ GenerateCalls \in {0, 1}
           /\ GenerateCalls = ExpectedCalls[last.input_text]
           /\ (last.called /\ last.res.exit \notin {"ok", "validation", "sensitive", "too_long"})
                => /\ GenerateCalls = 1
                   /\ ~ last.res.raised
                   /\ StartsWith(last.res.ret, "Error")

C13_Witness ==
    /\ Submitted
    /\ last.input_text = "list employees"
    /\ last.res.exit = "resource_exhausted"
    /\ last.res.generate_calls = 1
    /\ last.res.ret = "Error: API quota exceeded - failed"

====
